---- MODULE Spec2Model ----
(***************************************************************************)
(* State-machine model of the atlas-ai-frontend client:                    *)
(*   - DocumentUpload (src/src/components/DocumentUpload.jsx:5-277): the   *)
(*     tracked file set, handleFileSelect, the per-file upload protocol    *)
(*     uploadSingleFile and the batch orchestrator handleUploadAll;        *)
(*   - MessageContent (DocumentUpload.jsx:1013-1047): the replay of a      *)
(*     complete answer in chunks of 1 to 3 characters.                     *)
(* Every handler, promise continuation and timer callback is one action:   *)
(* the browser runs each of them to completion on a single thread.         *)
(***************************************************************************)
EXTENDS Integers, Sequences, FiniteSets, TLC

VARIABLES
  files,            \* useState([]) : the tracked set, a sequence of items
  uploading,        \* useState(false)
  globalStatus,     \* useState("") : the one user-facing message
  now,              \* the last value read from Date.now()
  offered,          \* File objects already handed to handleFileSelect
  hpc,              \* position of handleUploadAll: "idle" | "awaiting" | "threw"
  batch,            \* filesToUpload of the current (or last) invocation
  gi,               \* loop variable i of handleUploadAll
  runs,             \* one uploadSingleFile call per batch entry
  results,          \* results array of handleUploadAll
  completeCalls,    \* calls of onUploadComplete by the current (or last) invocation
  netCalls,         \* File objects a network call was issued for
  content,          \* MessageContent prop: the source text
  isStreaming,      \* MessageContent prop
  displayedContent, \* useState("")
  streamingRef,     \* useRef(false)
  timers,           \* pending setTimeout(streamText) callbacks: one closure per run
  streamCompletes,  \* calls of onStreamComplete
  mpc,              \* MessageContent: "unmounted" | "rendered" | "removed"
  chats,            \* ChatInterface useState([]) : the ids of the chats listed
  activeChat,       \* useState(null) : the id of the active chat
  messages,         \* useState([]) : the visible list
  newMessage,       \* useState("") : the composer's draft
  showNewChatForm,  \* useState(false)
  sendingMessage,   \* useState(false)
  streamingMessageId, \* useState(null) : the active-stream id
  call,             \* the createNewChat or sendMessage call awaiting its response
  loads,            \* chat ids of the loadChatMessages calls awaiting getChat
  chatNow,          \* the last value ChatInterface read from Date.now()
  turns,            \* turns started so far
  cookies,          \* names of the cookies stored (js-cookie)
  location,         \* window.location.href
  unauthorized,     \* File objects for which a response of status 401 arrived
  user,             \* AuthProvider useState(null)
  loading,          \* useState(true)
  token,            \* useState(null)
  initAuth,         \* position of initAuth: "start" | "getProfile" | "done"
  signOutCalls,     \* calls of signOut awaiting apiService.signOut
  signingIn,        \* a call of signIn awaits apiService.signIn
  profileFailed     \* getProfile has thrown in initAuth

uploadVars == <<files, uploading, globalStatus, now, offered, hpc, batch, gi,
                runs, results, completeCalls, netCalls>>
streamVars == <<content, isStreaming, displayedContent, streamingRef, timers,
                streamCompletes, mpc>>
chatVars == <<chats, activeChat, messages, newMessage, showNewChatForm,
              sendingMessage, streamingMessageId, call, loads, chatNow, turns>>
authVars == <<cookies, location, unauthorized>>
providerVars == <<user, loading, token, initAuth, signOutCalls, signingIn, profileFailed>>
restVars == <<chatVars, authVars, providerVars>>
vars == <<uploadVars, streamVars, restVars>>

-----------------------------------------------------------------------------
(* Program constants                                                       *)

MAX_FILES == 100
MAX_FILE_SIZE == 50 * 1024 * 1024
batchSize == 3

PDF == "application/pdf"
Null == "null"

(* Bounds of the model                                                     *)
MaxSelect == 2        \* files in one selection event
MaxNow == 1           \* largest clock value read
MaxLen == 4           \* length of a streamed text
MaxRuns == 2          \* replay runs started for one MessageContent
MaxTurns == 2         \* createNewChat and sendMessage calls made

-----------------------------------------------------------------------------
(* The File objects a user can offer.  Each is offered at most once (a     *)
(* selection event creates fresh File objects); objects 1 and 5 are the    *)
(* same document picked twice (equal name and size).                       *)

Catalog ==
  << [name |-> "a.pdf",     size |-> 1024,              type |-> PDF,          lastModified |-> 11],
     [name |-> "b.pdf",     size |-> MAX_FILE_SIZE,     type |-> PDF,          lastModified |-> 12],
     [name |-> "c.pdf",     size |-> 2048,              type |-> PDF,          lastModified |-> 13],
     [name |-> "d.pdf",     size |-> 4096,              type |-> PDF,          lastModified |-> 14],
     [name |-> "a.pdf",     size |-> 1024,              type |-> PDF,          lastModified |-> 15],
     [name |-> "big.pdf",   size |-> MAX_FILE_SIZE + 1, type |-> PDF,          lastModified |-> 16],
     [name |-> "notes.txt", size |-> 1024,              type |-> "text/plain", lastModified |-> 17] >>

FileObjects == 1..Len(Catalog)

(* The File objects of one large selection (a folder of PDF files).        *)
BulkObjects == (Len(Catalog) + 1)..(Len(Catalog) + MAX_FILES)

FileOf(o) ==
  IF o \in FileObjects THEN Catalog[o]
  ELSE [name |-> "doc" \o ToString(o) \o ".pdf", size |-> 1024, type |-> PDF,
        lastModified |-> 10]

(* An item of the tracked set (DocumentUpload.jsx:51-64).  The field file  *)
(* is the reference to the original File object.                           *)
FileObj(o, id) ==
  [name |-> FileOf(o).name, size |-> FileOf(o).size, type |-> FileOf(o).type,
   lastModified |-> FileOf(o).lastModified,
   id |-> id, status |-> "ready", progress |-> 0, error |-> Null, file |-> o]

(* validateFile with the size test written >= : a file of exactly the cap  *)
(* is refused.                                                             *)
validateFileBelowCap(file) ==
  IF file.type # PDF THEN "Only PDF files are allowed"
  ELSE IF file.size >= MAX_FILE_SIZE THEN "File size must be less than 50MB"
  ELSE Null

(* validateFile (DocumentUpload.jsx:15-23): the rejection reason or Null.  *)
validateFile(file) ==
  IF file.type # PDF THEN "Only PDF files are allowed"
  ELSE IF file.size > MAX_FILE_SIZE THEN "File size must be less than 50MB"
  ELSE Null

(* The duplicate test of handleFileSelect (lines 45-48): against the       *)
(* tracked set of the last render only.                                    *)
isDuplicate(fs, file) ==
  \E j \in 1..Len(fs) : fs[j].name = file.name /\ fs[j].size = file.size

(* The messages setGlobalStatus is called with.                            *)
Msg(kind, n, m, errs) == [kind |-> kind, n |-> n, m |-> m, errors |-> errs]
NoMsg == Msg("", 0, 0, <<>>)

(* The verdict of the forEach body (lines 40-69) on one candidate: the     *)
(* reason it is rejected for, or Null when it is pushed to validFiles.     *)
rejection(fs, file) ==
  IF validateFile(file) # Null THEN validateFile(file)
  ELSE IF ~isDuplicate(fs, file) THEN Null
  ELSE "Duplicate file"

(* fileArray.forEach of handleFileSelect (lines 39-70): the pair           *)
(* <<validFiles, errors>>.  No iteration reads what an earlier one pushed; *)
(* index is 0-based.                                                       *)
forEachFile(fs, sel, t) ==
  LET verdicts == [k \in 1..Len(sel) |->
                     [obj    |-> FileObj(sel[k], t + (k - 1)),
                      reason |-> rejection(fs, FileOf(sel[k]))]]
      pushed   == SelectSeq(verdicts, LAMBDA v : v.reason = Null)
      refused  == SelectSeq(verdicts, LAMBDA v : v.reason # Null)
  IN  << [j \in 1..Len(pushed) |-> pushed[j].obj],
         [j \in 1..Len(refused) |-> [file |-> refused[j].obj.name, reason |-> refused[j].reason]] >>

(* An update that adds an item when no item has the id.                    *)
updateFileStatusOrAdd(fs, fileId, status, progress, error) ==
  IF \E j \in 1..Len(fs) : fs[j].id = fileId
    THEN [j \in 1..Len(fs) |->
            IF fs[j].id = fileId
              THEN [fs[j] EXCEPT !.status = status, !.progress = progress, !.error = error]
              ELSE fs[j]]
    ELSE Append(fs, [FileObj(0, fileId) EXCEPT !.status = status, !.progress = progress,
                                               !.error = error])

(* An update that leaves the error of the item when it is given none.     *)
updateFileStatusKeepsError(fs, fileId, status, progress, error) ==
  [j \in 1..Len(fs) |->
     IF fs[j].id = fileId
       THEN [fs[j] EXCEPT !.status = status, !.progress = progress,
                          !.error = IF error = Null THEN fs[j].error ELSE error]
       ELSE fs[j]]

(* updateFileStatus (lines 117-126): every item with that id is replaced.  *)
updateFileStatus(fs, fileId, status, progress, error) ==
  [j \in 1..Len(fs) |->
     IF fs[j].id = fileId
       THEN [fs[j] EXCEPT !.status = status, !.progress = progress, !.error = error]
       ELSE fs[j]]

Retryable(f) == f.status = "ready" \/ f.status = "failed"
InFlightStatus(f) == f.status \in {"uploading", "getting-url", "processing"}

(* pendingFiles (lines 317-319) and filesToUpload (lines 234-236).         *)
pendingFiles(fs) == SelectSeq(fs, Retryable)

-----------------------------------------------------------------------------
(* The limit test with the bound off by one.                               *)
overLimitByTwo(fs, sel) == Len(fs) + Len(sel) > MAX_FILES + 1

(* The limit test of handleFileSelect (line 31).                           *)
overLimit(fs, sel) == Len(fs) + Len(sel) > MAX_FILES

(* handleFileSelect (lines 25-83), called by handleDrop and                *)
(* handleFileInputChange with the files of one selection event; t is the   *)
(* value Date.now() returns during the event.                              *)
handleFileSelect(sel, t) ==
  /\ now' = t
  /\ offered' = offered \cup {sel[j] : j \in 1..Len(sel)}
  /\ IF overLimit(files, sel)
       THEN /\ globalStatus' = Msg("limit", MAX_FILES, Len(files), <<>>)
            /\ files' = files
       ELSE LET r == forEachFile(files, sel, t)
            IN  /\ globalStatus' = IF Len(r[2]) > 0 THEN Msg("rejected", 0, 0, r[2]) ELSE NoMsg
                /\ files' = IF Len(r[1]) > 0 THEN files \o r[1] ELSE files
  /\ UNCHANGED <<uploading, hpc, batch, gi, runs, results, completeCalls, netCalls, streamVars, restVars>>

(* The selection events.  A selection holds distinct File objects that    *)
(* were not offered before, listed in catalog order; Date.now() returns a  *)
(* value not before the last one read.                                     *)
Clock == { t \in 0..MaxNow : t >= now }

Selections(pool) ==
  UNION { { s \in [1..n -> pool] : \A a, b \in 1..n : a < b => s[a] < s[b] } : n \in 1..MaxSelect }

(* The files offered while uploads are studied: two documents, one file    *)
(* over the cap and one that is no PDF.                                    *)
UploadPool == {1, 2, 6, 7}

SelectFiles ==
  \E sel \in Selections(UploadPool \ offered) : \E t \in Clock :
    handleFileSelect(sel, t)

(* Any files of the catalog.                                               *)
SelectAny ==
  \E sel \in Selections(FileObjects \ offered) : \E t \in Clock :
    handleFileSelect(sel, t)

(* One selection of a whole folder, of a size near MAX_FILES.              *)
BulkSizes == {MAX_FILES - 2, MAX_FILES - 1}

SelectBulk ==
  /\ offered \cap BulkObjects = {}
  /\ \E n \in BulkSizes : \E t \in Clock :
       handleFileSelect([j \in 1..n |-> Len(Catalog) + j], t)

(* Four documents in two selection events, the batch of two groups.        *)
BatchSelection == <<1, 2, 3>>
LateSelection == <<4>>

(* The milliseconds between the two events: after 2 the late file gets the *)
(* id of the third file of the first event, after 3 an id of its own.      *)
BatchDelays == {2, 3}

SelectBatch ==
  /\ offered = {}
  /\ handleFileSelect(BatchSelection, now)

(* The late file is added before anything has been uploaded.               *)
SelectLate ==
  /\ offered = {BatchSelection[j] : j \in 1..Len(BatchSelection)}
  /\ Len(files) = Len(BatchSelection)
  /\ \A j \in 1..Len(files) : files[j].status = "ready"
  /\ \E d \in BatchDelays : handleFileSelect(LateSelection, now + d)

(* removeFile (lines 113-115); its button is rendered for an item only     *)
(* while nothing uploads and the item is not in flight (lines 459-462).    *)
removeFile(fileId) ==
  /\ ~uploading
  /\ \E j \in 1..Len(files) : files[j].id = fileId /\ ~InFlightStatus(files[j])
  /\ files' = SelectSeq(files, LAMBDA f : f.id # fileId)
  /\ UNCHANGED <<uploading, globalStatus, now, offered, hpc, batch, gi, runs,
                 results, completeCalls, netCalls, streamVars, restVars>>

RemoveFile == \E j \in 1..Len(files) : removeFile(files[j].id)

(* The same, for an item of the catalog only.                              *)
RemoveCatalogFile ==
  \E j \in 1..Len(files) : files[j].file \in FileObjects /\ removeFile(files[j].id)

(* clearCompleted (lines 270-272); rendered while a completed item exists  *)
(* (lines 408-415).                                                        *)
clearCompleted ==
  /\ \E j \in 1..Len(files) : files[j].status = "completed"
  /\ files' = SelectSeq(files, LAMBDA f : f.status # "completed")
  /\ UNCHANGED <<uploading, globalStatus, now, offered, hpc, batch, gi, runs,
                 results, completeCalls, netCalls, streamVars, restVars>>

(* clearAll (lines 274-277); disabled while uploading (line 418).          *)
clearAll ==
  /\ Len(files) > 0
  /\ ~uploading
  /\ files' = <<>>
  /\ globalStatus' = NoMsg
  /\ UNCHANGED <<uploading, now, offered, hpc, batch, gi, runs, results,
                 completeCalls, netCalls, streamVars, restVars>>


-----------------------------------------------------------------------------
(* uploadSingleFile (lines 162-229).  A call is at one of its awaits       *)
(* ("getUploadUrl", "uploadToS3", "processDocument"), not yet made         *)
(* ("queued"), or its promise is fulfilled ("settled") or rejected.        *)

NoResult == [success |-> FALSE, file |-> "", error |-> ""]
QueuedRun == [pc |-> "queued", result |-> NoResult]

(* A catch block that returns the failure result without marking the item. *)
catchErrorUnmarked(fs, rs, b, k, message) ==
  << fs,
     [rs EXCEPT ![k] = [pc |-> "settled",
                        result |-> [success |-> FALSE, file |-> b[k].name, error |-> message]]] >>

(* A catch block that leaves the progress of the item as it was.           *)
catchErrorKeepsProgress(fs, rs, b, k, message) ==
  << [j \in 1..Len(fs) |->
        IF fs[j].id = b[k].id
          THEN [fs[j] EXCEPT !.status = "failed", !.error = message]
          ELSE fs[j]],
     [rs EXCEPT ![k] = [pc |-> "settled",
                        result |-> [success |-> FALSE, file |-> b[k].name, error |-> message]]] >>

(* The catch block (lines 220-228): the item becomes failed and the call   *)
(* returns a failure result, so that its promise is fulfilled.             *)
catchError(fs, rs, b, k, message) ==
  << updateFileStatus(fs, b[k].id, "failed", 0, message),
     [rs EXCEPT ![k] = [pc |-> "settled",
                        result |-> [success |-> FALSE, file |-> b[k].name, error |-> message]]] >>

(* A start that never makes the call.                                      *)
startUploadNever(fs, rs, b, k) == <<fs, rs>>

(* The synchronous start of one call, up to the await of getUploadUrl      *)
(* (lines 163-185).                                                        *)
startUpload(fs, rs, b, k) ==
  IF b[k].name = "" THEN catchError(fs, rs, b, k, "Invalid file object - missing name")
  ELSE IF b[k].type = "" THEN catchError(fs, rs, b, k, "Invalid file object - missing type")
  ELSE << updateFileStatus(fs, b[k].id, "getting-url", 0, Null),
          [rs EXCEPT ![k] = [pc |-> "getUploadUrl", result |-> NoResult]] >>

(* The entries of the group that starts at loop index i (0-based slice     *)
(* i .. i + batchSize of line 247).                                        *)
Group(b, i) == { k \in 1..Len(b) : i < k /\ k <= i + batchSize }

(* batch.map(file => uploadSingleFile(file)) (line 248): the calls of a    *)
(* group start one after another in the same task; <<files, runs>> after   *)
(* the entries up to k have started.                                       *)
RECURSIVE startGroup(_, _, _, _, _)
startGroup(fs, rs, b, i, k) ==
  IF k <= i \/ k < 1 THEN <<fs, rs>>
  ELSE LET prev == startGroup(fs, rs, b, i, k - 1)
       IN  startUpload(prev[1], prev[2], b, k)

(* A slice that takes the rest of the list instead of batchSize entries.   *)
RestOfList(b, i) == Len(b)

(* The last entry of the slice of line 247.                                *)
LastOfGroup(b, i) == IF i + batchSize < Len(b) THEN i + batchSize ELSE Len(b)

Started(b, i) == { b[k].file : k \in { j \in Group(b, i) : b[j].name # "" /\ b[j].type # "" } }

(* A handler without the two early returns.                                *)
neverReturnsEarly(fs) == FALSE

(* The early returns of handleUploadAll (lines 232-237).                   *)
returnsEarly(fs) == Len(fs) = 0 \/ Len(pendingFiles(fs)) = 0

(* handleUploadAll up to its first await (lines 231-249).  It is called    *)
(* by its button, which is disabled while uploading or while no item is    *)
(* retryable (line 493), or it is called while no item is retryable.       *)
handleUploadAll ==
  /\ ~uploading \/ Len(pendingFiles(files)) = 0
  /\ IF returnsEarly(files)
       THEN UNCHANGED vars
       ELSE /\ LET filesToUpload == pendingFiles(files)
                   st == startGroup(files, [k \in 1..Len(filesToUpload) |-> QueuedRun],
                                    filesToUpload, 0, LastOfGroup(filesToUpload, 0))
               IN  /\ uploading' = TRUE
                   /\ globalStatus' = Msg("uploading", Len(filesToUpload), 0, <<>>)
                   /\ batch' = filesToUpload
                   /\ results' = <<>>
                   /\ gi' = 0
                   /\ files' = st[1]
                   /\ runs' = st[2]
                   /\ netCalls' = netCalls \cup Started(filesToUpload, 0)
            /\ hpc' = "awaiting"
            /\ completeCalls' = 0
            /\ UNCHANGED <<now, offered, streamVars, restVars>>

(* What apiService.getUploadUrl resolves with (apiService.js:71-76), as    *)
(* far as lines 191-197 look at it.                                        *)
UploadUrlResponses ==
  { [hasData |-> d, uploadUrl |-> u, key |-> k] :
      d \in BOOLEAN, u \in {"", "https://s3/put"}, k \in {"", "doc-key"} }

(* A test that does not ask for the key.                                   *)
validWithoutKey(resp) == resp.hasData /\ resp.uploadUrl # ""

ValidUploadUrl(resp) == resp.hasData /\ resp.uploadUrl # "" /\ resp.key # ""

(* What ApiService.request throws for a response that is not ok            *)
(* (apiService.js:31-38).                                                  *)
ApiErrors == {"HTTP 500"}

protocolVarsUnchanged ==
  UNCHANGED <<uploading, globalStatus, now, offered, hpc, batch, gi, results,
              completeCalls, netCalls, streamVars, restVars>>

(* getUploadUrl resolves (lines 185-201).                                  *)
GetUploadUrlResolves(k, resp) ==
  /\ k \in DOMAIN runs
  /\ runs[k].pc = "getUploadUrl"
  /\ IF ~ValidUploadUrl(resp)
       THEN LET c == catchError(files, runs, batch, k, "Invalid upload URL response from server")
            IN  files' = c[1] /\ runs' = c[2]
       ELSE /\ files' = updateFileStatus(files, batch[k].id, "uploading", 0, Null)
            /\ runs' = [runs EXCEPT ![k].pc = "uploadToS3"]
  /\ protocolVarsUnchanged

(* getUploadUrl rejects.                                                   *)
GetUploadUrlRejects(k, message) ==
  /\ k \in DOMAIN runs
  /\ runs[k].pc = "getUploadUrl"
  /\ LET c == catchError(files, runs, batch, k, message)
     IN  files' = c[1] /\ runs' = c[2]
  /\ protocolVarsUnchanged

(* The progress values (e.loaded / e.total) * 100 the model draws.         *)
ProgressValues == {50}

(* A progress event of the transfer (lines 133-138 and 204-206).           *)
UploadProgress(k, progress) ==
  /\ k \in DOMAIN runs
  /\ runs[k].pc = "uploadToS3"
  /\ files' = updateFileStatus(files, batch[k].id, "uploading", progress, Null)
  /\ UNCHANGED runs
  /\ protocolVarsUnchanged

(* The statuses a finished transfer reports.                               *)
HttpStatuses == {200, 403}

(* The load event of the transfer (lines 140-146, then 208-216).           *)
UploadLoad(k, status) ==
  /\ k \in DOMAIN runs
  /\ runs[k].pc = "uploadToS3"
  /\ IF status = 200
       THEN /\ files' = updateFileStatus(files, batch[k].id, "processing", 100, Null)
            /\ runs' = [runs EXCEPT ![k].pc = "processDocument"]
       ELSE LET c == catchError(files, runs, batch, k,
                                "Upload failed with status: " \o ToString(status))
            IN  files' = c[1] /\ runs' = c[2]
  /\ protocolVarsUnchanged

(* The error and abort events of the transfer (lines 148-154).             *)
UploadFails(k, message) ==
  /\ k \in DOMAIN runs
  /\ runs[k].pc = "uploadToS3"
  /\ LET c == catchError(files, runs, batch, k, message)
     IN  files' = c[1] /\ runs' = c[2]
  /\ protocolVarsUnchanged

TransferErrors == {"Network error during upload"}
AbortErrors == {"Upload was aborted"}

(* processDocument resolves (lines 211-219).                               *)
ProcessDocumentResolves(k) ==
  /\ k \in DOMAIN runs
  /\ runs[k].pc = "processDocument"
  /\ files' = updateFileStatus(files, batch[k].id, "completed", 100, Null)
  /\ runs' = [runs EXCEPT ![k] = [pc |-> "settled",
                                  result |-> [success |-> TRUE, file |-> batch[k].name, error |-> ""]]]
  /\ protocolVarsUnchanged

(* processDocument rejects.                                                *)
ProcessDocumentRejects(k, message) ==
  /\ k \in DOMAIN runs
  /\ runs[k].pc = "processDocument"
  /\ LET c == catchError(files, runs, batch, k, message)
     IN  files' = c[1] /\ runs' = c[2]
  /\ protocolVarsUnchanged

(* Promise.race in place of Promise.all: settled with the first call.      *)
promiseRace(rs, g) ==
  IF \E k \in g : rs[k].pc = "rejected" THEN "rejected"
  ELSE IF \E k \in g : rs[k].pc = "settled" THEN "fulfilled"
  ELSE "pending"

(* Promise.all (line 249) settles: rejected as soon as one call is         *)
(* rejected, fulfilled once every call of the group is fulfilled.          *)
promiseAll(rs, g) ==
  IF \E k \in g : rs[k].pc = "rejected" THEN "rejected"
  ELSE IF \A k \in g : rs[k].pc = "settled" THEN "fulfilled"
  ELSE "pending"

RECURSIVE batchResults(_, _, _)
batchResults(rs, i, k) ==
  IF k <= i \/ k < 1 THEN <<>> ELSE Append(batchResults(rs, i, k - 1), rs[k].result)

(* A push that keeps only the results of the last group.                   *)
pushOverwrites(res, more) == more

(* results.push(...batchResults) (line 250).                               *)
push(res, more) == res \o more

successful(res) == SelectSeq(res, LAMBDA r : r.success)
failed(res) == SelectSeq(res, LAMBDA r : ~r.success)

(* The summary of lines 253-264.                                           *)
summary(res) ==
  IF Len(successful(res)) > 0 /\ Len(failed(res)) = 0
    THEN Msg("success", Len(successful(res)), 0, <<>>)
  ELSE IF Len(successful(res)) > 0 /\ Len(failed(res)) > 0
    THEN Msg("partial", Len(successful(res)), Len(failed(res)), <<>>)
  ELSE Msg("allfailed", 0, 0, <<>>)

(* The continuation of handleUploadAll after await Promise.all (lines      *)
(* 249-267): it collects the group's results and either starts the next    *)
(* group or reports the summary and calls onUploadComplete, after which    *)
(* its locals (filesToUpload, i, results, the promises) are gone.  A       *)
(* rejected Promise.all throws out of the handler.                         *)
awaitGroup ==
  /\ hpc = "awaiting"
  /\ promiseAll(runs, Group(batch, gi)) # "pending"
  /\ IF promiseAll(runs, Group(batch, gi)) = "rejected"
       THEN /\ hpc' = "threw"
            /\ UNCHANGED <<files, uploading, globalStatus, batch, gi, runs, results,
                           completeCalls, netCalls>>
       ELSE LET res == push(results, batchResults(runs, gi, LastOfGroup(batch, gi)))
                i   == gi + batchSize
            IN  IF i < Len(batch)
                  THEN LET st == startGroup(files, runs, batch, i, LastOfGroup(batch, i))
                       IN  /\ results' = res
                           /\ gi' = i
                           /\ files' = st[1]
                           /\ runs' = st[2]
                           /\ netCalls' = netCalls \cup Started(batch, i)
                           /\ UNCHANGED <<hpc, uploading, globalStatus, batch, completeCalls>>
                  ELSE /\ globalStatus' = summary(res)
                       /\ uploading' = FALSE
                       /\ completeCalls' = completeCalls + 1
                       /\ hpc' = "idle"
                       /\ batch' = <<>> /\ gi' = 0 /\ runs' = <<>> /\ results' = <<>>
                       /\ UNCHANGED <<files, netCalls>>
  /\ UNCHANGED <<now, offered, streamVars, restVars>>

-----------------------------------------------------------------------------
(* MessageContent (lines 1013-1064).  A text is a sequence of characters.  *)

Alphabet == {"a", "b"}
Texts == UNION { [1..n -> Alphabet] : n \in 0..MaxLen }

(* content.slice(from, to) on a text (0-based, to exclusive, clamped).     *)
slice(text, from, to) ==
  SubSeq(text, from + 1, IF to < Len(text) THEN to ELSE Len(text))

(* The chunk sizes of lines 1026-1027.                                     *)
ChunkSizes == {1, 2, 3}

(* The body of the effect (lines 1018-1046), run with the props text and   *)
(* streaming of the render that scheduled it.  A new run is the closure    *)
(* of streamText with its index and the content it captured, waiting in    *)
(* setTimeout.  The effect returns no cleanup.                             *)
runEffect(text, streaming) ==
  IF streaming /\ text # <<>> /\ ~streamingRef
    THEN /\ streamingRef' = TRUE
         /\ displayedContent' = <<>>
         /\ timers' = Append(timers, [index |-> 0, content |-> text])
    ELSE IF ~streaming
      THEN /\ displayedContent' = text
           /\ streamingRef' = FALSE
           /\ UNCHANGED timers
    ELSE UNCHANGED <<displayedContent, streamingRef, timers>>

effect == runEffect(content, isStreaming)

(* The first render (useState(""), useRef(false)) and its effect.          *)
Mount ==
  /\ mpc = "unmounted"
  /\ mpc' = "rendered"
  /\ effect
  /\ UNCHANGED <<content, isStreaming, streamCompletes, uploadVars, restVars>>

(* The parent renders again with the same content and isStreaming: the     *)
(* inline onStreamComplete (lines 1763-1765) is a new function, a          *)
(* dependency of the effect (line 1047), which runs again.                 *)
Rerender ==
  /\ mpc = "rendered"
  /\ Len(timers) + streamCompletes < MaxRuns
  /\ effect
  /\ UNCHANGED <<content, isStreaming, streamCompletes, mpc, uploadVars, restVars>>

(* The parent renders the instance with another content or isStreaming;    *)
(* both are dependencies of the effect (line 1047).                        *)
SetProps(text, streaming) ==
  /\ mpc = "rendered"
  /\ <<text, streaming>> # <<content, isStreaming>>
  /\ Len(timers) + streamCompletes < MaxRuns
  /\ content' = text
  /\ isStreaming' = streaming
  /\ runEffect(text, streaming)
  /\ UNCHANGED <<streamCompletes, mpc, uploadVars, restVars>>

(* The parent stops rendering the instance (its message left the list).    *)
(* No timer is cleared: the effect has no cleanup and nothing else holds   *)
(* the timer ids.                                                          *)
Unmount ==
  /\ mpc = "rendered"
  /\ mpc' = "removed"
  /\ UNCHANGED <<content, isStreaming, displayedContent, streamingRef, timers,
                 streamCompletes, uploadVars, restVars>>

RemoveAt(seq, r) == SubSeq(seq, 1, r - 1) \o SubSeq(seq, r + 1, Len(seq))

(* streamText (lines 1023-1039), the callback of the pending timer r.  A   *)
(* state update of an instance that is no longer mounted is dropped.       *)
streamText(r, chunkSize) ==
  /\ r \in DOMAIN timers
  /\ LET index == timers[r].index
         text  == timers[r].content
     IN  IF index < Len(text)
           THEN /\ displayedContent' =
                     IF mpc = "rendered"
                       THEN displayedContent \o slice(text, index, index + chunkSize)
                       ELSE displayedContent
                /\ timers' = [timers EXCEPT ![r].index = index + chunkSize]
                /\ UNCHANGED <<streamingRef, streamCompletes>>
           ELSE /\ streamingRef' = FALSE
                /\ streamCompletes' = streamCompletes + 1
                /\ timers' = RemoveAt(timers, r)
                /\ UNCHANGED displayedContent
  /\ UNCHANGED <<content, isStreaming, mpc, uploadVars, restVars>>

-----------------------------------------------------------------------------
(* parseMarkdown (lines 959-1010).  A text is a sequence of characters;    *)
(* the markup a substitution inserts is one token per tag, written without *)
(* its class attribute (no later pattern matches inside an attribute);     *)
(* the bullet of a list item is the token "&#8226;".                       *)

(* One attempt of a pattern at one position: the number of characters it   *)
(* consumed (0: no match there) and what replaces them.                    *)
NoMatch == [len |-> 0, out |-> <<>>]

(* The character U+0060, which a string of this module cannot hold.        *)
Backtick == "backtick"

startsWith(s, i, p) == i + Len(p) - 1 <= Len(s) /\ SubSeq(s, i, i + Len(p) - 1) = p

Least(S) == CHOOSE j \in S : \A k \in S : j <= k

(* ^ and $ under the m flag, and . (no line terminator).                   *)
lineStart(s, i) == i = 1 \/ s[i - 1] = "\n"
lineEnd(s, i) == Least({ j \in i..(Len(s) + 1) : j = Len(s) + 1 \/ s[j] = "\n" })

(* String.prototype.replace with a g pattern: the matches are taken from   *)
(* left to right, each search resuming after the last match; m[i] is the   *)
(* attempt of the pattern at position i.                                   *)
RECURSIVE rewrite(_, _, _)
rewrite(s, m, i) ==
  IF i > Len(s) THEN <<>>
  ELSE IF m[i].len > 0 THEN m[i].out \o rewrite(s, m, i + m[i].len)
  ELSE <<s[i]>> \o rewrite(s, m, i + 1)

replaceAll(s, m) == rewrite(s, m, 1)

(* /^p(.*$)/gim for a literal prefix p : the rest of the line is $1.       *)
linePrefix(s, p, open, close) ==
  [i \in 1..Len(s) |->
     IF lineStart(s, i) /\ startsWith(s, i, p)
       THEN LET e == lineEnd(s, i + Len(p))
            IN  [len |-> e - i, out |-> open \o SubSeq(s, i + Len(p), e - 1) \o close]
       ELSE NoMatch]

(* /p(.*?)p/g, or /p([\s\S]*?)p/g if multiline, for a literal delimiter p: *)
(* the lazy group ends at the first later occurrence of p.                 *)
delimited(s, p, multiline, open, close) ==
  [i \in 1..Len(s) |->
     IF startsWith(s, i, p)
       THEN LET ends == { j \in (i + Len(p))..Len(s) :
                            /\ startsWith(s, j, p)
                            /\ \A k \in (i + Len(p))..(j - 1) : multiline \/ s[k] # "\n" }
            IN  IF ends = {} THEN NoMatch
                ELSE [len |-> Least(ends) + Len(p) - i,
                      out |-> open \o SubSeq(s, i + Len(p), Least(ends) - 1) \o close]
       ELSE NoMatch]

(* The end of the run [^c]+ that starts at i and is followed by c, or 0.   *)
runUntil(s, i, c) ==
  LET stops == { j \in i..Len(s) : s[j] = c }
  IN  IF stops = {} \/ Least(stops) = i THEN 0 ELSE Least(stops)

(* /`([^`]+)`/g                                                            *)
inlineCode(s) ==
  [i \in 1..Len(s) |->
     IF s[i] = Backtick /\ runUntil(s, i + 1, Backtick) > 0
       THEN [len |-> runUntil(s, i + 1, Backtick) + 1 - i,
             out |-> <<"<code>">> \o SubSeq(s, i + 1, runUntil(s, i + 1, Backtick) - 1) \o <<"</code>">>]
       ELSE NoMatch]

Digits == {"0", "1", "2", "3", "4", "5", "6", "7", "8", "9"}

(* /^\d+\. (.*$)/gim                                                       *)
orderedItem(s) ==
  [i \in 1..Len(s) |->
     LET d == Least({ j \in i..(Len(s) + 1) : j = Len(s) + 1 \/ s[j] \notin Digits })
     IN  IF lineStart(s, i) /\ d > i /\ startsWith(s, d, <<".", " ">>)
           THEN [len |-> lineEnd(s, d + 2) - i,
                 out |-> <<"<li>">> \o SubSeq(s, d + 2, lineEnd(s, d + 2) - 1) \o <<"</li>">>]
           ELSE NoMatch]

(* /\[([^\]]+)\]\(([^)]+)\)/g                                              *)
link(s) ==
  [i \in 1..Len(s) |->
     LET b == IF s[i] = "[" THEN runUntil(s, i + 1, "]") ELSE 0
         e == IF b > 0 /\ startsWith(s, b + 1, <<"(">>) THEN runUntil(s, b + 2, ")") ELSE 0
     IN  IF e > 0
           THEN [len |-> e + 1 - i,
                 out |-> <<"<a href=">> \o SubSeq(s, b + 2, e - 1) \o <<">">>
                           \o SubSeq(s, i + 1, b - 1) \o <<"</a>">>]
           ELSE NoMatch]

(* /(<li.*<\/li>)/s, not global: from the first item to the last.          *)
wrapList(s) ==
  LET opens  == { j \in 1..Len(s) : s[j] = "<li>" }
      closes == { j \in 1..Len(s) : s[j] = "</li>" }
  IN  IF opens = {} \/ \A j \in closes : j < Least(opens) THEN s
      ELSE LET a == Least(opens)
               z == CHOOSE j \in closes : \A k \in closes : k <= j
           IN  SubSeq(s, 1, a - 1) \o <<"<ul>">> \o SubSeq(s, a, z) \o <<"</ul>">>
                 \o SubSeq(s, z + 1, Len(s))

(* The chain of replace calls, in the order of the source.                 *)
parseMarkdown(text) ==
  IF text = <<>> THEN text
  ELSE
    LET h3     == replaceAll(text, linePrefix(text, <<"#", "#", "#", " ">>, <<"<h3>">>, <<"</h3>">>))
        h2     == replaceAll(h3, linePrefix(h3, <<"#", "#", " ">>, <<"<h2>">>, <<"</h2>">>))
        h1     == replaceAll(h2, linePrefix(h2, <<"#", " ">>, <<"<h1>">>, <<"</h1>">>))
        bold   == replaceAll(h1, delimited(h1, <<"*", "*">>, FALSE, <<"<strong>">>, <<"</strong>">>))
        italic == replaceAll(bold, delimited(bold, <<"*">>, FALSE, <<"<em>">>, <<"</em>">>))
        block  == replaceAll(italic, delimited(italic, <<Backtick, Backtick, Backtick>>, TRUE,
                                               <<"<pre>", "<code>">>, <<"</code>", "</pre>">>))
        code   == replaceAll(block, inlineCode(block))
        items  == replaceAll(code, linePrefix(code, <<"-", " ">>, <<"<li>", "&#8226;", " ">>, <<"</li>">>))
        list   == wrapList(items)
        olist  == replaceAll(list, orderedItem(list))
        links  == replaceAll(olist, link(olist))
    IN  [j \in 1..Len(links) |-> IF links[j] = "\n" THEN "<br/>" ELSE links[j]]

(* The markup MessageContent renders (line 1049).                          *)
htmlContent == parseMarkdown(displayedContent)

(* The texts parseMarkdown is studied on: the example of the two           *)
(* emphases, and the texts that hold one fence.                            *)
BoldAndItalic ==
  << "*", "*", "b", "o", "l", "d", "*", "*", " ", "a", "n", "d", " ",
     "*", "i", "t", "a", "l", "i", "c", "*" >>

MaxBody == 3          \* length of a fenced text

Fence == <<Backtick, Backtick, Backtick>>
FencedTexts == UNION { [1..n -> {"a", "*", "\n"}] : n \in 0..MaxBody }
Around == { <<>>, <<"a">> }
Fenced(before, body, after) == before \o Fence \o body \o Fence \o after

MarkdownTexts ==
  {BoldAndItalic}
    \cup { Fenced(before, body, after) : before \in Around, body \in FencedTexts, after \in Around }

streamIdle ==
  /\ content = <<>> /\ isStreaming = FALSE /\ displayedContent = <<>>
  /\ streamingRef = FALSE /\ timers = <<>> /\ streamCompletes = 0
  /\ mpc = "unmounted"

uploadIdle ==
  /\ files = <<>> /\ uploading = FALSE /\ globalStatus = NoMsg /\ now = 0
  /\ offered = {} /\ hpc = "idle" /\ batch = <<>> /\ gi = 0 /\ runs = <<>>
  /\ results = <<>> /\ completeCalls = 0 /\ netCalls = {}

(* No createNewChat or sendMessage call is pending.  A pending call holds  *)
(* the locals of its handler; typed is the newMessage of its closure.      *)
NoCall == [kind |-> "none", typed |-> "", userQuery |-> "", userMessageId |-> Null,
           assistantMessageId |-> Null, tempChatId |-> Null, chatId |-> Null]

(* ChatInterface after its first render (lines 1067-1076).                 *)
chatIdle ==
  /\ chats = <<>> /\ activeChat = Null /\ messages = <<>> /\ newMessage = ""
  /\ showNewChatForm = FALSE /\ sendingMessage = FALSE
  /\ streamingMessageId = Null /\ call = NoCall /\ loads = {}
  /\ chatNow = 0 /\ turns = 0

(* A signed-in session: both cookies are stored.                           *)
authIdle == cookies = {"token", "user"} /\ location = "/" /\ unauthorized = {}

(* AuthProvider at its first render (AuthContext.jsx:17-19), before its    *)
(* effect has run.                                                         *)
providerIdle ==
  /\ user = Null /\ loading = TRUE /\ token = Null /\ initAuth = "start"
  /\ signOutCalls = 0 /\ signingIn = FALSE /\ profileFailed = FALSE

restIdle == chatIdle /\ authIdle /\ providerIdle

-----------------------------------------------------------------------------
(* ApiService.request (apiService.js:18-45).                               *)

(* A response as request looks at it: its status, and whether its body     *)
(* parses as JSON.  A JSON error body carries no message field.            *)
Responses == { [status |-> st, json |-> j] : st \in {200, 401, 500}, j \in BOOLEAN }

ok(resp) == resp.status >= 200 /\ resp.status <= 299

(* What one call of request does with a response: the message of the       *)
(* error it throws (Null if it returns the data) and whether it ran        *)
(* clearAuth and set window.location.href.                                 *)
request(resp) ==
  IF ~resp.json
    THEN [threw |-> "Unexpected end of JSON input", signedOut |-> FALSE]
  ELSE IF ~ok(resp)
    THEN IF resp.status = 401
           THEN [threw |-> "Session expired. Please sign in again.", signedOut |-> TRUE]
           ELSE [threw |-> "HTTP " \o ToString(resp.status), signedOut |-> FALSE]
  ELSE [threw |-> Null, signedOut |-> FALSE]

(* clearAuth (lines 47-50) and the redirect of line 34, if request ran     *)
(* them.                                                                   *)
signOut(out, o, resp) ==
  /\ cookies' = IF out.signedOut THEN cookies \ {"token", "user"} ELSE cookies
  /\ location' = IF out.signedOut THEN "/signin" ELSE location
  /\ unauthorized' = IF resp.status = 401 THEN unauthorized \cup {o} ELSE unauthorized

sessionFrame ==
  UNCHANGED <<uploading, globalStatus, now, offered, hpc, batch, gi, results,
              completeCalls, netCalls, streamVars, chatVars, providerVars>>

(* The response to getUploadUrl arrives (DocumentUpload.jsx:182-198,       *)
(* 220-228); a JSON body of status 200 is the valid answer.                *)
GetUploadUrlResponds(k, resp) ==
  /\ k \in DOMAIN runs
  /\ runs[k].pc = "getUploadUrl"
  /\ LET out == request(resp)
         st  == IF out.threw # Null
                  THEN catchError(files, runs, batch, k, out.threw)
                  ELSE << updateFileStatus(files, batch[k].id, "uploading", 0, Null),
                          [runs EXCEPT ![k].pc = "uploadToS3"] >>
     IN  /\ files' = st[1]
         /\ runs' = st[2]
         /\ signOut(out, batch[k].file, resp)
  /\ sessionFrame

(* The response to processDocument arrives (lines 208-228).                *)
ProcessDocumentResponds(k, resp) ==
  /\ k \in DOMAIN runs
  /\ runs[k].pc = "processDocument"
  /\ LET out == request(resp)
         st  == IF out.threw # Null
                  THEN catchError(files, runs, batch, k, out.threw)
                  ELSE << updateFileStatus(files, batch[k].id, "completed", 100, Null),
                          [runs EXCEPT ![k] = [pc |-> "settled",
                                               result |-> [success |-> TRUE, file |-> batch[k].name, error |-> ""]]] >>
     IN  /\ files' = st[1]
         /\ runs' = st[2]
         /\ signOut(out, batch[k].file, resp)
  /\ sessionFrame

(* One selection of two documents.                                         *)
SelectPair ==
  /\ offered = {}
  /\ handleFileSelect(<<1, 2>>, now)

-----------------------------------------------------------------------------
(* AuthProvider (AuthContext.jsx:16-117), ProtectedRoute                   *)
(* (unnamed/part_000:193-210) and the pages that call signIn and signOut.  *)
(* token is Null, "stored" (read from the cookie) or "fresh" (signed in).  *)

MaxSignOuts == 2      \* calls of signOut pending at once

(* isAuthenticated (line 113).                                             *)
isAuthenticated == token # Null

(* initAuth up to its await, or to its end if no token is stored (lines    *)
(* 22-37, 46); parses tells whether JSON.parse accepts the user cookie.    *)
InitAuthStarts(parses) ==
  /\ initAuth = "start"
  /\ IF "token" \in cookies
       THEN /\ token' = "stored"
            /\ user' = IF "user" \in cookies /\ parses THEN "stored" ELSE user
            /\ initAuth' = "getProfile"
            /\ UNCHANGED loading
       ELSE /\ loading' = FALSE
            /\ initAuth' = "done"
            /\ UNCHANGED <<token, user>>
  /\ UNCHANGED <<cookies, location, signOutCalls, signingIn, profileFailed>>
  /\ UNCHANGED <<uploadVars, streamVars, chatVars, unauthorized>>

(* The response to getProfile arrives (lines 37-46).  If request throws,   *)
(* the catch block calls signOut without awaiting it: signOut runs up to   *)
(* its await of apiService.signOut (line 96) and initAuth goes on to       *)
(* setLoading(false).                                                      *)
GetProfileResponds(resp, success) ==
  /\ initAuth = "getProfile"
  /\ LET out == request(resp)
     IN  /\ cookies' = IF out.signedOut THEN cookies \ {"token", "user"} ELSE cookies
         /\ location' = IF out.signedOut THEN "/signin" ELSE location
         /\ IF out.threw # Null
              THEN /\ profileFailed' = TRUE
                   /\ signOutCalls' = signOutCalls + 1
                   /\ UNCHANGED user
              ELSE /\ user' = IF success THEN "profile" ELSE user
                   /\ UNCHANGED <<profileFailed, signOutCalls>>
  /\ loading' = FALSE
  /\ initAuth' = "done"
  /\ UNCHANGED <<token, signingIn>>
  /\ UNCHANGED <<uploadVars, streamVars, chatVars, unauthorized>>

(* The response to apiService.signOut arrives: whatever it is, the finally *)
(* block of signOut runs (lines 94-105).                                   *)
SignOutSettles(resp) ==
  /\ signOutCalls > 0
  /\ signOutCalls' = signOutCalls - 1
  /\ cookies' = cookies \ {"token", "user"}
  /\ location' = IF request(resp).signedOut THEN "/signin" ELSE location
  /\ token' = Null
  /\ user' = Null
  /\ UNCHANGED <<loading, initAuth, signingIn, profileFailed>>
  /\ UNCHANGED <<uploadVars, streamVars, chatVars, unauthorized>>

(* handleSignOut of Dashboard (DocumentUpload.jsx:569-575), which is       *)
(* rendered when ProtectedRoute returns its children (part_000:197-209).   *)
handleSignOut ==
  /\ location = "/" /\ ~loading /\ isAuthenticated
  /\ signOutCalls < MaxSignOuts
  /\ signOutCalls' = signOutCalls + 1
  /\ UNCHANGED <<cookies, location, user, loading, token, initAuth, signingIn, profileFailed>>
  /\ UNCHANGED <<uploadVars, streamVars, chatVars, unauthorized>>

(* ProtectedRoute renders Navigate to /signin (part_000:205-207), SignIn   *)
(* navigates to / (DocumentUpload.jsx:736-740).                            *)
Navigate ==
  /\ ~loading
  /\ \/ location = "/" /\ ~isAuthenticated /\ location' = "/signin"
     \/ location = "/signin" /\ isAuthenticated /\ location' = "/"
  /\ UNCHANGED <<cookies, providerVars>>
  /\ UNCHANGED <<uploadVars, streamVars, chatVars, unauthorized>>

(* handleSignIn of SignIn with a valid form, up to the await of            *)
(* apiService.signIn (DocumentUpload.jsx:765-781, AuthContext.jsx:52-54).  *)
handleSignIn ==
  /\ location = "/signin" /\ ~signingIn
  /\ signingIn' = TRUE
  /\ UNCHANGED <<cookies, location, user, loading, token, initAuth, signOutCalls, profileFailed>>
  /\ UNCHANGED <<uploadVars, streamVars, chatVars, unauthorized>>

(* The response to apiService.signIn arrives (AuthContext.jsx:54-91,       *)
(* DocumentUpload.jsx:781-797); valid tells whether response.success and   *)
(* response.data.token hold.                                               *)
SignInResponds(resp, valid) ==
  /\ signingIn
  /\ signingIn' = FALSE
  /\ LET out == request(resp)
     IN  IF out.threw = Null /\ valid
           THEN /\ cookies' = cookies \cup {"token", "user"}
                /\ token' = "fresh"
                /\ user' = "info"
                /\ location' = "/"
           ELSE /\ cookies' = IF out.signedOut THEN cookies \ {"token", "user"} ELSE cookies
                /\ location' = IF out.signedOut THEN "/signin" ELSE location
                /\ UNCHANGED <<token, user>>
  /\ UNCHANGED <<loading, initAuth, signOutCalls, profileFailed>>
  /\ UNCHANGED <<uploadVars, streamVars, chatVars, unauthorized>>

-----------------------------------------------------------------------------
(* ChatInterface (lines 1066-1400).  Ids are strings.                      *)

(* What the user types into the composer, and String.prototype.trim on it. *)
Drafts == {" ", "hi", " hi "}
trim(text) == CASE text = " " -> "" [] text = " hi " -> "hi" [] OTHER -> text

(* The ids made from Date.now() (lines 1192, 1199, 1209 and 1291, 1298).   *)
userId(t) == "user-" \o ToString(t)
assistantId(t) == "assistant-" \o ToString(t)
tempId(t) == "temp-" \o ToString(t)

chatMessage(id, role, text) == [id |-> id, role |-> role, content |-> text, fullContent |-> ""]

ChatClock == { t \in 0..MaxNow : t >= chatNow }

(* The server: the chats it has, the messages it returns for a chat        *)
(* (getChat), the id of a chat it creates and of an answer it stores.      *)
ServerChats == {"c1"}
History(chatId) ==
  << chatMessage(chatId \o "-m1", "user", "q"), chatMessage(chatId \o "-m2", "assistant", "a") >>
newChatId == "n" \o ToString(turns)
newMessageId == "m" \o ToString(turns)
Answers == {"", "ok"}

(* A rollback that removes nothing.                                        *)
dropNothing(seq, n) == seq

(* prev.slice(0, -n).                                                      *)
dropLast(seq, n) == SubSeq(seq, 1, Len(seq) - n)

(* loadChats has listed the chats of the server (lines 1124-1143).         *)
chatsLoaded ==
  /\ chats = <<"c1">> /\ activeChat = Null /\ messages = <<>> /\ newMessage = ""
  /\ showNewChatForm = FALSE /\ sendingMessage = FALSE
  /\ streamingMessageId = Null /\ call = NoCall /\ loads = {}
  /\ chatNow = 0 /\ turns = 0

chatFrame == UNCHANGED <<uploadVars, streamVars, authVars, providerVars>>

(* onChange of the two textareas (lines 1669 and 1813), which are disabled *)
(* while a turn is sent; the composer also while no chat is active.        *)
setNewMessage(text) ==
  /\ ~sendingMessage
  /\ showNewChatForm \/ activeChat # Null
  /\ text # newMessage
  /\ newMessage' = text
  /\ UNCHANGED <<chats, activeChat, messages, showNewChatForm, sendingMessage,
                 streamingMessageId, call, loads, chatNow, turns>>
  /\ chatFrame

(* startNewChat (lines 1384-1395); its buttons are never disabled.         *)
startNewChat ==
  /\ ~showNewChatForm
  /\ activeChat' = Null
  /\ messages' = <<>>
  /\ newMessage' = ""
  /\ showNewChatForm' = TRUE
  /\ UNCHANGED <<chats, sendingMessage, streamingMessageId, call, loads, chatNow, turns>>
  /\ chatFrame

(* createNewChat up to its await (lines 1172-1232), called from the form.  *)
createNewChat(t) ==
  /\ showNewChatForm /\ ~sendingMessage
  /\ trim(newMessage) # ""
  /\ turns < MaxTurns
  /\ sendingMessage' = TRUE
  /\ chats' = <<tempId(t)>> \o chats
  /\ activeChat' = tempId(t)
  /\ messages' = << chatMessage(userId(t), "user", trim(newMessage)),
                    chatMessage(assistantId(t), "assistant", "") >>
  /\ newMessage' = ""
  /\ showNewChatForm' = FALSE
  /\ streamingMessageId' = assistantId(t)
  /\ call' = [kind |-> "create", typed |-> newMessage, userQuery |-> trim(newMessage),
              userMessageId |-> userId(t), assistantMessageId |-> assistantId(t),
              tempChatId |-> tempId(t), chatId |-> Null]
  /\ chatNow' = t
  /\ turns' = turns + 1
  /\ UNCHANGED loads
  /\ chatFrame

(* The reconciliation of the placeholder (lines 1245-1256, 1320-1331).     *)
reconcile(msgs, assistantMessageId, messageId, answer) ==
  [i \in 1..Len(msgs) |->
     IF msgs[i].id = assistantMessageId
       THEN [msgs[i] EXCEPT !.id = messageId, !.fullContent = answer, !.content = ""]
       ELSE msgs[i]]

(* createChat resolves (lines 1232-1270); valid tells whether              *)
(* response && response.success && response.data holds.                    *)
CreateChatResolves(valid, answer) ==
  /\ call.kind = "create"
  /\ IF valid
       THEN /\ chats' = [i \in 1..Len(chats) |->
                           IF chats[i] = call.tempChatId THEN newChatId ELSE chats[i]]
            /\ activeChat' = newChatId
            /\ messages' = reconcile(messages, call.assistantMessageId, newMessageId, answer)
            /\ UNCHANGED streamingMessageId
       ELSE /\ messages' = dropLast(messages, 1)
            /\ streamingMessageId' = Null
            /\ UNCHANGED <<chats, activeChat>>
  /\ sendingMessage' = FALSE
  /\ call' = NoCall
  /\ UNCHANGED <<newMessage, showNewChatForm, loads, chatNow, turns>>
  /\ chatFrame

(* createChat rejects: the catch and finally blocks (lines 1262-1270).     *)
CreateChatRejects ==
  /\ call.kind = "create"
  /\ messages' = dropLast(messages, 1)
  /\ streamingMessageId' = Null
  /\ sendingMessage' = FALSE
  /\ call' = NoCall
  /\ UNCHANGED <<chats, activeChat, newMessage, showNewChatForm, loads, chatNow, turns>>
  /\ chatFrame

(* sendMessage up to its await (lines 1273-1313), called from the          *)
(* composer, which is rendered while the form is not.                      *)
sendMessage(t) ==
  /\ ~showNewChatForm /\ ~sendingMessage
  /\ trim(newMessage) # "" /\ activeChat # Null
  /\ turns < MaxTurns
  /\ sendingMessage' = TRUE
  /\ messages' = messages \o << chatMessage(userId(t), "user", trim(newMessage)),
                                chatMessage(assistantId(t), "assistant", "") >>
  /\ newMessage' = ""
  /\ streamingMessageId' = assistantId(t)
  /\ call' = [kind |-> "send", typed |-> newMessage, userQuery |-> trim(newMessage),
              userMessageId |-> userId(t), assistantMessageId |-> assistantId(t),
              tempChatId |-> Null, chatId |-> activeChat]
  /\ chatNow' = t
  /\ turns' = turns + 1
  /\ UNCHANGED <<chats, activeChat, showNewChatForm, loads>>
  /\ chatFrame

(* apiService.sendMessage resolves (lines 1313-1347).                      *)
SendMessageResolves(valid, answer) ==
  /\ call.kind = "send"
  /\ IF valid
       THEN /\ messages' = reconcile(messages, call.assistantMessageId, newMessageId, answer)
            /\ UNCHANGED <<newMessage, streamingMessageId>>
       ELSE /\ messages' = dropLast(messages, 2)
            /\ newMessage' = call.userQuery
            /\ streamingMessageId' = Null
  /\ sendingMessage' = FALSE
  /\ call' = NoCall
  /\ UNCHANGED <<chats, activeChat, showNewChatForm, loads, chatNow, turns>>
  /\ chatFrame

(* apiService.sendMessage rejects (lines 1337-1347).                       *)
SendMessageRejects ==
  /\ call.kind = "send"
  /\ messages' = dropLast(messages, 2)
  /\ newMessage' = call.userQuery
  /\ streamingMessageId' = Null
  /\ sendingMessage' = FALSE
  /\ call' = NoCall
  /\ UNCHANGED <<chats, activeChat, showNewChatForm, loads, chatNow, turns>>
  /\ chatFrame

(* handleChatSelect (lines 1117-1122): loadChatMessages up to its await    *)
(* (lines 1145-1150).  The entries of the sidebar are never disabled.      *)
handleChatSelect(chatId) ==
  /\ chatId \notin loads
  /\ loads' = loads \cup {chatId}
  /\ UNCHANGED <<chats, activeChat, messages, newMessage, showNewChatForm,
                 sendingMessage, streamingMessageId, call, chatNow, turns>>
  /\ chatFrame

(* getChat resolves (lines 1150-1165).                                     *)
GetChatResolves(chatId, valid) ==
  /\ chatId \in loads
  /\ loads' = loads \ {chatId}
  /\ IF valid
       THEN messages' = History(chatId) /\ activeChat' = chatId
       ELSE messages' = <<>> /\ UNCHANGED activeChat
  /\ UNCHANGED <<chats, newMessage, showNewChatForm, sendingMessage,
                 streamingMessageId, call, chatNow, turns>>
  /\ chatFrame

(* getChat rejects (lines 1166-1169): only the error text is set.          *)
GetChatRejects(chatId) ==
  /\ chatId \in loads
  /\ loads' = loads \ {chatId}
  /\ UNCHANGED <<chats, activeChat, messages, newMessage, showNewChatForm,
                 sendingMessage, streamingMessageId, call, chatNow, turns>>
  /\ chatFrame

(* The rendering of the list (lines 1734-1767): a message without content  *)
(* renders nothing; an assistant message renders a MessageContent, with    *)
(* isStreaming true if its id is the active-stream id.                     *)
Rendered(msg) == msg.content # ""
HasMessageContent(msg) == Rendered(msg) /\ msg.role # "user"
IsStreaming(msg) == msg.id = streamingMessageId

(* DocumentUpload after its first render (lines 6-10).                     *)
Init == uploadIdle /\ streamIdle /\ restIdle

(* The upload component with two documents: every handler, every outcome   *)
(* of every network call.                                                  *)
Next ==
  \/ SelectFiles
  \/ RemoveFile
  \/ clearCompleted
  \/ clearAll
  \/ handleUploadAll
  \/ \E k \in DOMAIN runs : \E resp \in UploadUrlResponses : GetUploadUrlResolves(k, resp)
  \/ \E k \in DOMAIN runs : \E message \in ApiErrors : GetUploadUrlRejects(k, message)
  \/ \E k \in DOMAIN runs : \E progress \in ProgressValues : UploadProgress(k, progress)
  \/ \E k \in DOMAIN runs : \E status \in HttpStatuses : UploadLoad(k, status)
  \/ \E k \in DOMAIN runs : \E message \in TransferErrors : UploadFails(k, message)
  \/ \E k \in DOMAIN runs : ProcessDocumentResolves(k)
  \/ \E k \in DOMAIN runs : \E message \in ApiErrors : ProcessDocumentRejects(k, message)
  \/ awaitGroup

Spec == Init /\ [][Next]_vars

(* A batch of four documents, that is two groups: each step of the         *)
(* protocol succeeds or fails in one way, failed items are retried.        *)
NextBatch ==
  \/ SelectBatch
  \/ SelectLate
  \/ clearCompleted
  \/ handleUploadAll
  \/ \E k \in DOMAIN runs : \E resp \in UploadUrlResponses : GetUploadUrlResolves(k, resp)
  \/ \E k \in DOMAIN runs : \E progress \in ProgressValues : UploadProgress(k, progress)
  \/ \E k \in DOMAIN runs : \E status \in HttpStatuses : UploadLoad(k, status)
  \/ \E k \in DOMAIN runs : ProcessDocumentResolves(k)
  \/ \E k \in DOMAIN runs : \E message \in ApiErrors : ProcessDocumentRejects(k, message)
  \/ awaitGroup

SpecBatch == Init /\ [][NextBatch]_vars

(* Selection and removal alone, over the whole catalog.                    *)
NextSelect ==
  \/ SelectAny
  \/ RemoveFile
  \/ clearAll

SpecSelect == Init /\ [][NextSelect]_vars

(* Selection and removal next to the limit of MAX_FILES: one selection of  *)
(* a whole folder, and the files of UploadPool.                            *)
NextLimit ==
  \/ SelectBulk
  \/ SelectFiles
  \/ RemoveCatalogFile
  \/ clearAll

SpecLimit == Init /\ [][NextLimit]_vars

(* The replay of one text: MessageContent is given a text and isStreaming  *)
(* true, and keeps these props.                                            *)
InitReplay ==
  /\ uploadIdle /\ restIdle
  /\ content \in Texts /\ isStreaming = TRUE /\ displayedContent = <<>>
  /\ streamingRef = FALSE /\ timers = <<>> /\ streamCompletes = 0
  /\ mpc = "unmounted"

NextReplay ==
  \/ Mount
  \/ Rerender
  \/ \E r \in DOMAIN timers : \E chunkSize \in ChunkSizes : streamText(r, chunkSize)

SpecReplay == InitReplay /\ [][NextReplay]_vars

(* The texts a parent replaces the content with.                           *)
NewTexts == { <<>>, <<"b">> }

(* One MessageContent under a parent that changes its props and removes    *)
(* it.                                                                     *)
NextProps ==
  \/ Mount
  \/ Rerender
  \/ \E text \in NewTexts \cup {content} : \E streaming \in BOOLEAN : SetProps(text, streaming)
  \/ Unmount
  \/ \E r \in DOMAIN timers : \E chunkSize \in ChunkSizes : streamText(r, chunkSize)

SpecProps == InitReplay /\ [][NextProps]_vars

(* The protocol of two documents with every way a transfer can end.        *)
NextSteps ==
  \/ SelectPair
  \/ RemoveFile
  \/ clearCompleted
  \/ handleUploadAll
  \/ \E k \in DOMAIN runs : \E resp \in UploadUrlResponses : GetUploadUrlResolves(k, resp)
  \/ \E k \in DOMAIN runs : \E message \in ApiErrors : GetUploadUrlRejects(k, message)
  \/ \E k \in DOMAIN runs : \E progress \in ProgressValues : UploadProgress(k, progress)
  \/ \E k \in DOMAIN runs : \E status \in HttpStatuses : UploadLoad(k, status)
  \/ \E k \in DOMAIN runs : \E message \in TransferErrors \cup AbortErrors : UploadFails(k, message)
  \/ \E k \in DOMAIN runs : ProcessDocumentResolves(k)
  \/ \E k \in DOMAIN runs : \E message \in ApiErrors : ProcessDocumentRejects(k, message)
  \/ awaitGroup

SpecSteps == Init /\ [][NextSteps]_vars

(* A batch of four documents under the assumption that every network call *)
(* settles and every continuation that is ready runs: the calls of         *)
(* getUploadUrl, the transfers and the calls of processDocument end, and   *)
(* the continuation of handleUploadAll runs once Promise.all has settled.  *)
(* A call fails at getUploadUrl or at the transfer.                        *)
UrlSettles ==
  \E k \in DOMAIN runs : \E resp \in UploadUrlResponses : GetUploadUrlResolves(k, resp)
TransferEnds ==
  \E k \in DOMAIN runs : \E status \in HttpStatuses : UploadLoad(k, status)
ProcessSettles ==
  \E k \in DOMAIN runs : ProcessDocumentResolves(k)

NextLive ==
  \/ SelectBatch
  \/ SelectLate
  \/ handleUploadAll
  \/ UrlSettles
  \/ \E k \in DOMAIN runs : \E progress \in ProgressValues : UploadProgress(k, progress)
  \/ TransferEnds
  \/ ProcessSettles
  \/ awaitGroup

SpecLive ==
  /\ Init /\ [][NextLive]_vars
  /\ WF_vars(UrlSettles) /\ WF_vars(TransferEnds) /\ WF_vars(ProcessSettles)
  /\ WF_vars(awaitGroup)

(* One MessageContent that shows a text with markdown in it, at once or    *)
(* by replay.                                                              *)
InitMarkdown ==
  /\ uploadIdle /\ restIdle
  /\ content \in MarkdownTexts /\ isStreaming \in BOOLEAN /\ displayedContent = <<>>
  /\ streamingRef = FALSE /\ timers = <<>> /\ streamCompletes = 0
  /\ mpc = "unmounted"

SpecMarkdown == InitMarkdown /\ [][NextReplay]_vars

(* The upload of two documents with the responses of the API in full.      *)
NextSession ==
  \/ SelectPair
  \/ handleUploadAll
  \/ \E k \in DOMAIN runs : \E resp \in Responses : GetUploadUrlResponds(k, resp)
  \/ \E k \in DOMAIN runs : \E progress \in ProgressValues : UploadProgress(k, progress)
  \/ \E k \in DOMAIN runs : \E status \in HttpStatuses : UploadLoad(k, status)
  \/ \E k \in DOMAIN runs : \E resp \in Responses : ProcessDocumentResponds(k, resp)
  \/ awaitGroup

SpecSession == Init /\ [][NextSession]_vars

(* The application starts, with or without stored credentials.  Every     *)
(* network call of AuthProvider settles.                                   *)
InitAuth ==
  /\ uploadIdle /\ streamIdle /\ chatIdle /\ providerIdle
  /\ cookies \in { {}, {"token", "user"} }
  /\ location \in {"/", "/signin"}
  /\ unauthorized = {}

NextAuth ==
  \/ \E parses \in BOOLEAN : InitAuthStarts(parses)
  \/ \E resp \in Responses : \E success \in BOOLEAN : GetProfileResponds(resp, success)
  \/ \E resp \in Responses : SignOutSettles(resp)
  \/ handleSignOut
  \/ Navigate
  \/ handleSignIn
  \/ \E resp \in Responses : \E valid \in BOOLEAN : SignInResponds(resp, valid)

SpecAuth ==
  /\ InitAuth /\ [][NextAuth]_vars
  /\ WF_vars(\E resp \in Responses : \E success \in BOOLEAN : GetProfileResponds(resp, success))
  /\ WF_vars(\E resp \in Responses : SignOutSettles(resp))

(* ChatInterface with its chats listed: turns, chat switches and their     *)
(* responses in any order.                                                 *)
InitChat == uploadIdle /\ streamIdle /\ authIdle /\ providerIdle /\ chatsLoaded

NextChat ==
  \/ \E text \in Drafts : setNewMessage(text)
  \/ startNewChat
  \/ \E t \in ChatClock : createNewChat(t)
  \/ \E valid \in BOOLEAN : \E answer \in Answers : CreateChatResolves(valid, answer)
  \/ CreateChatRejects
  \/ \E t \in ChatClock : sendMessage(t)
  \/ \E valid \in BOOLEAN : \E answer \in Answers : SendMessageResolves(valid, answer)
  \/ SendMessageRejects
  \/ \E chatId \in {chats[i] : i \in 1..Len(chats)} : handleChatSelect(chatId)
  \/ \E chatId \in loads : \E valid \in BOOLEAN : GetChatResolves(chatId, valid)
  \/ \E chatId \in loads : GetChatRejects(chatId)

SpecChat == InitChat /\ [][NextChat]_vars

-----------------------------------------------------------------------------
(* Properties of handleUploadAll.                                          *)

(* The step on which handleUploadAll returns.                              *)
Finishes == hpc = "awaiting" /\ hpc' = "idle"

(* The calls of uploadSingleFile that have started and not yet settled.    *)
InFlight == { k \in DOMAIN runs : runs[k].pc \in {"getUploadUrl", "uploadToS3", "processDocument"} }

(* The loop index of the group that holds entry k.                         *)
GroupOf(k) == ((k - 1) \div batchSize) * batchSize

(* The tracked items made from the File object o.                          *)
ItemsOf(fs, o) == { j \in 1..Len(fs) : fs[j].file = o }

(* C1: when an invocation of handleUploadAll finishes, every item of its   *)
(* batch that is still tracked is completed or failed; none is left in     *)
(* getting-url, uploading or processing.                                   *)
BatchItemsSettled ==
  [][ Finishes =>
        \A k \in 1..Len(batch) : \A j \in ItemsOf(files', batch[k].file) :
          files'[j].status \in {"completed", "failed"} ]_vars

(* A batch of four has finished, with a completed and a failed item.       *)
BatchItemsSettledSeen ==
  /\ hpc = "idle" /\ ~uploading /\ Len(files) = Len(BatchSelection) + Len(LateSelection)
  /\ \E j \in 1..Len(files) : files[j].status = "completed"
  /\ \E j \in 1..Len(files) : files[j].status = "failed"
  /\ \A j \in 1..Len(files) : files[j].status \in {"completed", "failed"}

(* C2: at no time are more than batchSize calls of uploadSingleFile        *)
(* started and not yet settled.                                            *)
AtMostThreeInFlight == Cardinality(InFlight) <= batchSize

(* Three calls of a batch of four are in flight, the fourth is queued.     *)
AtMostThreeInFlightSeen ==
  /\ Len(batch) = 4 /\ Cardinality(InFlight) = batchSize
  /\ runs[4].pc = "queued"

(* C3: groups run one after another.  No call of a later group has         *)
(* started, and no item of a later group has left ready or failed, until   *)
(* every call of the earlier groups has settled; when a group has settled  *)
(* with a failure in it the next group starts all the same, and nothing    *)
(* is thrown out of the loop.                                              *)
GroupsRunInSequence ==
  /\ [](\A k \in DOMAIN runs :
          /\ runs[k].pc # "queued" =>
               \A j \in DOMAIN runs : GroupOf(j) < GroupOf(k) => runs[j].pc = "settled"
          /\ runs[k].pc = "queued" =>
               \A j \in ItemsOf(files, batch[k].file) : Retryable(files[j]))
  /\ [](hpc # "threw")
  /\ [](hpc = "awaiting" /\ (\A k \in Group(batch, gi) : runs[k].pc = "settled")
          => ENABLED awaitGroup)
  /\ [][ (hpc = "awaiting" /\ gi' # gi /\ hpc' = "awaiting")
           => /\ \A k \in Group(batch, gi) : runs[k].pc = "settled"
              /\ \A k \in Group(batch, gi') : runs'[k].pc # "queued" ]_vars

(* The second group runs after a first group that had a failure in it.     *)
GroupsRunInSequenceSeen ==
  /\ Len(batch) = 4 /\ gi = batchSize /\ runs[4].pc = "getUploadUrl"
  /\ \E k \in 1..batchSize : runs[k].pc = "settled" /\ ~runs[k].result.success
  /\ \E k \in 1..batchSize : runs[k].pc = "settled" /\ runs[k].result.success

(* C4: a failure at any step of one item's protocol marks that item failed *)
(* with the reason and changes no other item; the other calls go on        *)
(* untouched, and nothing is thrown out of handleUploadAll.                *)
FailureIsIsolated ==
  [][ \A k \in DOMAIN runs :
        (k \in DOMAIN runs' /\ runs[k].pc # "settled" /\ runs'[k].pc = "settled"
           /\ ~runs'[k].result.success)
        => /\ Len(files') = Len(files)
           /\ \A j \in 1..Len(files) :
                IF files[j].file = batch[k].file
                  THEN files'[j].status = "failed" /\ files'[j].error = runs'[k].result.error
                  ELSE files'[j] = files[j]
           /\ \A j \in DOMAIN runs \ {k} : runs'[j] = runs[j]
           /\ hpc' # "threw" ]_vars

Succeeded == Cardinality({ k \in DOMAIN runs : runs[k].pc = "settled" /\ runs[k].result.success })
Failed == Cardinality({ k \in DOMAIN runs : runs[k].pc = "settled" /\ ~runs[k].result.success })

(* C5: onUploadComplete is called exactly once per invocation, on the step *)
(* that finishes it and not before; by then every call of the batch has    *)
(* settled, and the counts of the summary add up to the size of the batch. *)
CompleteCalledOnce ==
  /\ [](completeCalls <= 1 /\ (hpc = "awaiting" => completeCalls = 0))
  /\ [][ Finishes =>
           /\ completeCalls' = 1
           /\ \A k \in 1..Len(batch) : runs[k].pc = "settled"
           /\ Succeeded + Failed = Len(batch)
           /\ globalStatus' =
                IF Succeeded > 0 /\ Failed = 0 THEN Msg("success", Succeeded, 0, <<>>)
                ELSE IF Succeeded > 0 THEN Msg("partial", Succeeded, Failed, <<>>)
                ELSE Msg("allfailed", 0, 0, <<>>) ]_vars

(* An invocation over two groups has finished and called onUploadComplete. *)
CompleteCalledOnceSeen ==
  /\ hpc = "idle" /\ completeCalls = 1
  /\ globalStatus.kind = "partial" /\ globalStatus.n + globalStatus.m = Len(BatchSelection) + Len(LateSelection)

Allowed(s, t) ==
  \/ s = t
  \/ <<s, t>> \in { <<"ready", "getting-url">>, <<"getting-url", "uploading">>,
                    <<"uploading", "processing">>, <<"processing", "completed">>,
                    <<"failed", "getting-url">> }
  \/ s \in {"ready", "getting-url", "uploading", "processing"} /\ t = "failed"

(* C6: the status of an item changes only along ready -> getting-url ->    *)
(* uploading -> processing -> completed, from a non-terminal status to     *)
(* failed, and from failed to getting-url on a retry; a completed item     *)
(* keeps its status.                                                       *)
StatusFollowsProtocol ==
  [][ \A j \in 1..Len(files) : \A i \in ItemsOf(files', files[j].file) :
        Allowed(files[j].status, files'[i].status) ]_vars

-----------------------------------------------------------------------------
(* Properties of handleFileSelect.                                         *)

(* The File objects of the selection event of this step.                   *)
Selected == offered' \ offered

SameFile(f, g) == f.name = g.name /\ f.size = g.size

(* C7: a file whose name and size equal those of a file already admitted   *)
(* is admitted at most once, in the same selection event or in another,    *)
(* and the message of the event names the one refused.                     *)
DuplicateAdmittedOnce ==
  /\ [](\A i, j \in 1..Len(files) : i # j => ~SameFile(files[i], files[j]))
  /\ [][ \A o \in Selected :
           (\E p \in offered' \ {o} : SameFile(FileOf(p), FileOf(o)) /\ ItemsOf(files', p) # {})
           => /\ ItemsOf(files', o) = {}
              /\ globalStatus'.kind \in {"rejected", "limit"}
              /\ globalStatus'.kind = "rejected" =>
                   \E e \in 1..Len(globalStatus'.errors) :
                     globalStatus'.errors[e].file = FileOf(o).name ]_vars

(* C8: a selection whose count added to the tracked count exceeds          *)
(* MAX_FILES is refused whole with the one limit message, and the tracked  *)
(* set never holds more than MAX_FILES items.                              *)
SelectionLimit ==
  /\ [](Len(files) <= MAX_FILES)
  /\ [][ (Selected # {} /\ Len(files) + Cardinality(Selected) > MAX_FILES)
           => /\ files' = files
              /\ globalStatus' = Msg("limit", MAX_FILES, Len(files), <<>>) ]_vars

(* A selection was refused whole while fewer than MAX_FILES were tracked.  *)
SelectionLimitSeen ==
  /\ globalStatus.kind = "limit" /\ globalStatus.m = Len(files)
  /\ Len(files) = MAX_FILES - 1

Admissible(o) == FileOf(o).type = "application/pdf" /\ FileOf(o).size <= 52428800

(* C9: a file is admitted only if its type is application/pdf and its size *)
(* is at most the cap, a file of exactly the cap being admitted; a refused *)
(* file is named in the one message of the event, is never tracked and     *)
(* never reaches the network; the admitted files are appended as ready,    *)
(* progress 0, no error.                                                   *)
AdmitsOnlyValidPdf ==
  /\ [](/\ \A j \in 1..Len(files) : Admissible(files[j].file)
        /\ \A o \in offered : ~Admissible(o) => ItemsOf(files, o) = {}
        /\ \A o \in netCalls : Admissible(o))
  /\ [][ (Selected # {} /\ Len(files) + Cardinality(Selected) <= MAX_FILES)
           => /\ Len(files') >= Len(files)
              /\ SubSeq(files', 1, Len(files)) = files
              /\ netCalls' = netCalls
              /\ \A j \in (Len(files) + 1)..Len(files') :
                   /\ files'[j].file \in Selected
                   /\ files'[j].status = "ready" /\ files'[j].progress = 0
                   /\ files'[j].error = Null
              /\ \A o \in Selected :
                   IF Admissible(o) /\ ~isDuplicate(files, FileOf(o))
                     THEN Cardinality(ItemsOf(files', o)) = 1
                     ELSE /\ ItemsOf(files', o) = {}
                          /\ globalStatus'.kind = "rejected"
                          /\ \E e \in 1..Len(globalStatus'.errors) :
                               globalStatus'.errors[e].file = FileOf(o).name ]_vars

(* One event admitted the file of exactly the cap and refused, by name,    *)
(* the file one byte larger.                                               *)
AdmitsOnlyValidPdfSeen ==
  /\ \E j \in 1..Len(files) : files[j].size = MAX_FILE_SIZE /\ files[j].status = "ready"
  /\ globalStatus.kind = "rejected"
  /\ \E e \in 1..Len(globalStatus.errors) : globalStatus.errors[e].file = "big.pdf"
  /\ ItemsOf(files, 6) = {}

-----------------------------------------------------------------------------
(* Properties of MessageContent.                                           *)

ReplayEnded == mpc = "rendered" /\ isStreaming /\ timers = <<>>

(* C10: a replay of a text of any length, 0 and 1 included, ends with the  *)
(* displayed text equal to the source and onStreamComplete called exactly  *)
(* once.                                                                   *)
ReplayCompletesOnce ==
  ReplayEnded => displayedContent = content /\ streamCompletes = 1

(* C19: a call of handleUploadAll while no tracked item is ready or failed *)
(* changes nothing: no item, no network call, not the uploading flag, not  *)
(* the message, and onUploadComplete is not called.                        *)
UploadAllWithoutRetryableIsNoOp ==
  [][ (Len(pendingFiles(files)) = 0 /\ handleUploadAll)
        => UNCHANGED <<files, netCalls, uploading, globalStatus, completeCalls, hpc, runs>> ]_vars

(* Every tracked item is completed and nothing uploads: the handler can be *)
(* called with nothing to retry.                                           *)
UploadAllWithoutRetryableSeen ==
  /\ Len(files) > 0 /\ Len(pendingFiles(files)) = 0 /\ ~uploading
  /\ \A j \in 1..Len(files) : files[j].status = "completed"
  /\ ENABLED handleUploadAll

(* The File objects tracked, and the ids in list order.                    *)
Tracked(fs) == { fs[j].file : j \in 1..Len(fs) }
IdSeq(fs) == [j \in 1..Len(fs) |-> fs[j].id]
Removal == RemoveFile \/ clearCompleted \/ clearAll

(* C20: items leave the tracked set only through removeFile,               *)
(* clearCompleted or clearAll; an item once removed is not tracked again,  *)
(* whatever its protocol still in flight does; the steps of the protocol   *)
(* never change which ids are tracked.                                     *)
RemovedItemsStayRemoved ==
  [][ /\ Tracked(files') \subseteq Tracked(files) \cup Selected
      /\ ~(Tracked(files) \subseteq Tracked(files')) => Removal
      /\ (Selected = {} /\ ~Removal) => IdSeq(files') = IdSeq(files) ]_vars

(* An item was removed while its own call of uploadSingleFile is in flight. *)
RemovedItemsStayRemovedSeen ==
  \E k \in InFlight : batch[k].file \notin Tracked(files)

(* C11: one MessageContent has at most one replay run, that is one chain   *)
(* of scheduled ticks, at any time: an effect that runs again while a run  *)
(* is active starts no second run.                                         *)
AtMostOneReplayRun == Len(timers) <= 1

(* C12: once the MessageContent is removed no tick changes the displayed   *)
(* text and no completion callback is delivered.                           *)
RemovedReplayIsSilent ==
  [][ mpc = "removed" =>
        displayedContent' = displayedContent /\ streamCompletes' = streamCompletes ]_vars

-----------------------------------------------------------------------------
(* Properties of ChatInterface.                                            *)

(* The step on which the pending call of that kind ends, with or without   *)
(* the rollback of its catch block.                                        *)
TurnFails(kind) == call.kind = kind /\ call'.kind = "none" /\ streamingMessageId' = Null
TurnSucceeds(kind) == call.kind = kind /\ call'.kind = "none" /\ streamingMessageId' # Null

(* The two entries the pending call inserted.                              *)
Optimistic(msg) == msg.id \in {call.userMessageId, call.assistantMessageId}

StreamingMessages == { i \in DOMAIN messages : IsStreaming(messages[i]) }
Replaying == { i \in DOMAIN messages : HasMessageContent(messages[i]) /\ IsStreaming(messages[i]) }

(* C13: at most one message of the visible list is the currently streaming *)
(* message, and at most one message has a replay in progress.              *)
OneStreamingMessage ==
  Cardinality(StreamingMessages) <= 1 /\ Cardinality(Replaying) <= 1

(* A turn in a chat with earlier messages: its placeholder is the one      *)
(* streaming message, next to an assistant message that is shown.          *)
OneStreamingMessageSeen ==
  /\ Cardinality(StreamingMessages) = 1
  /\ \E i \in DOMAIN messages : HasMessageContent(messages[i]) /\ ~IsStreaming(messages[i])
  /\ call.kind = "send"

(* C14: when createChat or sendMessage succeeds with a non-empty answer    *)
(* the placeholder takes the server message id and the answer, is the      *)
(* currently streaming message, and its replay begins.                     *)
AnswerIsReplayed ==
  [][ \A i \in DOMAIN messages' :
        (/\ call.kind # "none" /\ call'.kind = "none"
         /\ i \in DOMAIN messages /\ messages[i].fullContent = ""
         /\ messages'[i].fullContent # "")
        => /\ messages'[i].id = newMessageId
           /\ messages'[i].id = streamingMessageId'
           /\ HasMessageContent(messages'[i]) ]_vars

(* C15: createNewChat inserts one user message, one placeholder and one    *)
(* chat with a temporary id; after createChat succeeds the chat list holds *)
(* the server chat id once and the temporary id no more, and the messages  *)
(* of the turn carry server ids, none twice.                               *)
CreateReconcilesIds ==
  /\ [][ (call.kind = "none" /\ call'.kind = "create")
           => /\ Len(messages') = 2
              /\ messages'[1].role = "user" /\ messages'[2].role = "assistant"
              /\ Len(chats') = Len(chats) + 1
              /\ chats'[1] = call'.tempChatId ]_vars
  /\ [][ TurnSucceeds("create")
           => /\ Cardinality({ i \in DOMAIN chats' : chats'[i] = newChatId }) = 1
              /\ \A i \in DOMAIN chats' : chats'[i] # call.tempChatId
              /\ \A i \in DOMAIN messages' : ~Optimistic(messages'[i])
              /\ \A i, j \in DOMAIN messages' : i # j => messages'[i].id # messages'[j].id ]_vars

(* C16: when createChat fails or answers malformed, both optimistic        *)
(* entries leave the list, the active-stream id is cleared and the draft   *)
(* is again the text the user had typed.                                   *)
CreateFailureRollsBack ==
  [][ TurnFails("create")
        => /\ \A i \in DOMAIN messages' : ~Optimistic(messages'[i])
           /\ streamingMessageId' = Null
           /\ newMessage' = call.typed ]_vars

(* C17: when sendMessage fails or answers malformed, exactly the two       *)
(* optimistic entries of the turn leave the list and every other message   *)
(* stays, also when another chat was loaded meanwhile; the text of the     *)
(* turn is back in the composer and the active-stream id is cleared.       *)
SendFailureRollsBack ==
  [][ TurnFails("send")
        => /\ SelectSeq(messages', LAMBDA msg : ~Optimistic(msg))
                = SelectSeq(messages, LAMBDA msg : ~Optimistic(msg))
           /\ \A i \in DOMAIN messages' : messages'[i].id # call.assistantMessageId
           /\ newMessage' \in {call.typed, call.userQuery}
           /\ streamingMessageId' = Null ]_vars

-----------------------------------------------------------------------------
(* Properties of ApiService.request.                                       *)

(* C18: once a response of status 401 has arrived, whatever its body, the  *)
(* token and user cookies are cleared and the location is the sign-in      *)
(* page; the item whose call got it is not recorded as a failed item.      *)
SessionExpiryIsDistinguished ==
  /\ [](unauthorized # {} =>
          cookies \cap {"token", "user"} = {} /\ location = "/signin")
  /\ [][ \A o \in unauthorized' \ unauthorized : \A j \in ItemsOf(files', o) :
           files'[j].status # "failed" ]_vars

-----------------------------------------------------------------------------
(* Properties of parseMarkdown.                                            *)

(* The whole text is displayed.                                            *)
Shown == mpc = "rendered" /\ displayedContent = content

Count(s, tok) == Cardinality({ j \in 1..Len(s) : s[j] = tok })

(* C21: "**bold** and *italic*" yields bold inside the bold element and    *)
(* italic inside the italic element; a text that holds one fence yields    *)
(* exactly one preformatted block, whose content is the fenced text as it  *)
(* was written.                                                            *)
FenceIsVerbatim ==
  Shown =>
    /\ content = BoldAndItalic =>
         htmlContent = << "<strong>", "b", "o", "l", "d", "</strong>", " ", "a", "n", "d", " ",
                          "<em>", "i", "t", "a", "l", "i", "c", "</em>" >>
    /\ \A before \in Around : \A body \in FencedTexts : \A after \in Around :
         content = Fenced(before, body, after) =>
           /\ Count(htmlContent, "<pre>") = 1
           /\ htmlContent = before \o <<"<pre>", "<code>">> \o body \o <<"</code>", "</pre>">> \o after

-----------------------------------------------------------------------------
(* Properties of uploadSingleFile.                                         *)

(* The call k ends on this step as a failure with that reason, and the     *)
(* item it uploads shows it.                                               *)
FailsWith(k, reason) ==
  /\ runs'[k].pc = "settled" /\ ~runs'[k].result.success
  /\ runs'[k].result.error = reason
  /\ \A j \in ItemsOf(files', batch[k].file) :
       files'[j].status = "failed" /\ files'[j].error = reason

(* C22: the transfer of an item starts only on a getUploadUrl response     *)
(* that holds an upload URL and a key, any other response fails the item   *)
(* with the invalid-response reason; processDocument is called only on a   *)
(* transfer that ended with status 200, any other status, a network error  *)
(* or an abort fails the item and processDocument is not called.           *)
StepsAreGated ==
  [][ \A k \in DOMAIN runs : k \in DOMAIN runs' =>
        /\ (runs'[k].pc = "uploadToS3" /\ runs[k].pc # "uploadToS3")
             => /\ runs[k].pc = "getUploadUrl"
                /\ \E resp \in UploadUrlResponses :
                     /\ resp.hasData /\ resp.uploadUrl # "" /\ resp.key # ""
                     /\ GetUploadUrlResolves(k, resp)
        /\ \A resp \in UploadUrlResponses :
             (~(resp.hasData /\ resp.uploadUrl # "" /\ resp.key # "") /\ GetUploadUrlResolves(k, resp))
               => FailsWith(k, "Invalid upload URL response from server")
        /\ (runs'[k].pc = "processDocument" /\ runs[k].pc # "processDocument")
             => runs[k].pc = "uploadToS3" /\ UploadLoad(k, 200)
        /\ \A status \in HttpStatuses \ {200} :
             UploadLoad(k, status) => FailsWith(k, "Upload failed with status: " \o ToString(status))
        /\ \A message \in TransferErrors \cup AbortErrors :
             UploadFails(k, message) => FailsWith(k, message) ]_vars

(* One call failed on an invalid getUploadUrl response, one on an aborted  *)
(* transfer, in an invocation that reached processDocument before.         *)
StepsAreGatedSeen ==
  /\ \E k \in DOMAIN runs :
       runs[k].pc = "settled" /\ runs[k].result.error = "Invalid upload URL response from server"
  /\ \E k \in DOMAIN runs :
       runs[k].pc = "settled" /\ runs[k].result.error = "Upload was aborted"
  /\ \A k \in DOMAIN runs : \A j \in ItemsOf(files, batch[k].file) : files[j].status = "failed"

(* C23: the progress of every tracked item is within 0..100; it is 0 while *)
(* the item is ready, getting-url or failed, 100 while it is processing or *)
(* completed, and another value only while it is uploading.                *)
ProgressMatchesStatus ==
  \A j \in 1..Len(files) :
    /\ files[j].progress >= 0 /\ files[j].progress <= 100
    /\ files[j].status \in {"ready", "getting-url", "failed"} => files[j].progress = 0
    /\ files[j].status \in {"processing", "completed"} => files[j].progress = 100
    /\ files[j].progress \notin {0, 100} => files[j].status = "uploading"

(* An item failed when its transfer ended, next to one whose transfer has  *)
(* reported progress.                                                      *)
ProgressMatchesStatusSeen ==
  /\ \E k \in DOMAIN runs : \E j \in ItemsOf(files, batch[k].file) :
       /\ runs[k].pc = "settled" /\ runs[k].result.error = "Upload failed with status: 403"
       /\ files[j].status = "failed" /\ files[j].progress = 0
  /\ \E j \in 1..Len(files) : files[j].status = "uploading" /\ files[j].progress = 50

(* The status the last update of a call gave its item.                     *)
StatusAt(run) ==
  CASE run.pc = "getUploadUrl" -> "getting-url"
    [] run.pc = "uploadToS3" -> "uploading"
    [] run.pc = "processDocument" -> "processing"
    [] run.pc = "settled" /\ run.result.success -> "completed"
    [] OTHER -> "failed"

(* The call k makes an update on this step.                                *)
Updates(k) ==
  \/ k \notin DOMAIN runs /\ runs'[k].pc # "queued"
  \/ k \in DOMAIN runs /\ runs'[k] # runs[k]
  \/ \E progress \in ProgressValues : UploadProgress(k, progress)

(* C24: no status update is lost.  Whatever the interleaving of the calls  *)
(* of a group with clearCompleted, removeFile and new selections, every    *)
(* item shows the status of the last update of its own call, its status,   *)
(* progress and error change only on an update of its own call, and no     *)
(* other field of any item ever changes.                                   *)
NoUpdateIsLost ==
  /\ [](\A k \in DOMAIN runs : runs[k].pc # "queued" =>
          \A j \in ItemsOf(files, batch[k].file) : files[j].status = StatusAt(runs[k]))
  /\ [][ \A j \in 1..Len(files) : \A i \in ItemsOf(files', files[j].file) :
           /\ [files'[i] EXCEPT !.status = "", !.progress = 0, !.error = Null]
                = [files[j] EXCEPT !.status = "", !.progress = 0, !.error = Null]
           /\ files'[i] # files[j] =>
                \E k \in DOMAIN runs' : batch'[k].file = files[j].file /\ Updates(k) ]_vars

(* C25: any two items tracked at the same time have distinct ids, whether  *)
(* one selection event admitted them or two, so that an update addressed   *)
(* to an id changes one item.                                              *)
IdsAreDistinct ==
  \A i, j \in 1..Len(files) : i # j => files[i].id # files[j].id

(* The steps of one call in their order.                                   *)
Rank(pc) ==
  CASE pc = "queued" -> 0 [] pc = "getUploadUrl" -> 1 [] pc = "uploadToS3" -> 2
    [] pc = "processDocument" -> 3 [] OTHER -> 4

(* C26: if every network call settles, an invocation of handleUploadAll    *)
(* that has started finishes: the uploading flag returns to false, which   *)
(* enables the trigger again; within the invocation no call goes back to   *)
(* a step it has made.                                                     *)
UploadAllTerminates ==
  /\ uploading ~> ~uploading
  /\ [][ \A k \in DOMAIN runs : k \in DOMAIN runs' =>
           /\ Rank(runs'[k].pc) >= Rank(runs[k].pc)
           /\ netCalls' # netCalls => runs' # runs ]_vars

(* An invocation over two groups has finished with a failed item left to   *)
(* retry.                                                                  *)
UploadAllTerminatesSeen ==
  /\ ~uploading /\ hpc = "idle" /\ completeCalls = 1
  /\ Len(files) = Len(BatchSelection) + Len(LateSelection)
  /\ Len(pendingFiles(files)) > 0
  /\ \A j \in 1..Len(files) : files[j].status \in {"completed", "failed"}

-----------------------------------------------------------------------------
(* Properties of the replay under changing props.                          *)

IsPrefix(s, t) == Len(s) <= Len(t) /\ s = SubSeq(t, 1, Len(s))

(* C27: the text a MessageContent displays is at every moment a prefix of  *)
(* its source text, the content prop or the content a run still going      *)
(* replays, also when isStreaming turns false while ticks are scheduled.   *)
(* (A message without content renders no MessageContent, line 1736.)       *)
DisplayedIsPrefix ==
  (mpc = "rendered" /\ content # <<>>) =>
    \/ IsPrefix(displayedContent, content)
    \/ \E r \in DOMAIN timers : IsPrefix(displayedContent, timers[r].content)

-----------------------------------------------------------------------------
(* Properties of the tracked items.                                        *)

(* C29: an item carries an error reason exactly when its status is failed; *)
(* the reason is set on the step that fails it and is gone when the item   *)
(* is retried.                                                             *)
ErrorIffFailed ==
  \A j \in 1..Len(files) :
    (files[j].status = "failed") <=> (files[j].error # Null /\ files[j].error # "")

(* A failed item is retried: the call that uploads it took it as failed,   *)
(* with its reason, and the item is now in getting-url without one.        *)
ErrorIffFailedSeen ==
  \E k \in DOMAIN runs : \E j \in ItemsOf(files, batch[k].file) :
    /\ batch[k].status = "failed" /\ batch[k].error # Null
    /\ files[j].status = "getting-url" /\ files[j].error = Null

-----------------------------------------------------------------------------
(* Properties of AuthProvider.                                             *)

(* C30: when the validation of a stored token fails, protected content is  *)
(* never rendered with that token, that is loading is never false while    *)
(* the stored token makes isAuthenticated true, and the token state and    *)
(* the stored credentials become empty.                                    *)
FailedTokenIsNeverUsed ==
  /\ [](profileFailed => ~(~loading /\ token = "stored"))
  /\ profileFailed ~> (token = Null /\ cookies \cap {"token", "user"} = {})

====
